---- MODULE Spec2Model ----
(***************************************************************************)
(* Model of Client/src/SpeedTest.js (component ModernSpeedTest).           *)
(*                                                                         *)
(* The component state (the useState cells and abortControllerRef) is      *)
(* shared by the click handlers and by every startTest invocation that is  *)
(* still suspended at an await.  Each startTest invocation ("run") is a    *)
(* coroutine with its own captured `signal`; its position is pc[r].        *)
(*                                                                         *)
(* Scheduling follows the JavaScript event loop: a click, a network        *)
(* response, a timer expiry and an interval tick are tasks; the            *)
(* continuation of a settled await is a microtask, and every queued        *)
(* microtask runs before the next task (mq = <<>> guards every task).      *)
(* A useState cell is modelled by the last value handed to its setter.     *)
(* The view is taken to be re-rendered before the next click, so the       *)
(* buttons offered are those of the current state, and the two effects    *)
(* that depend on isRunning (the canvas effect, lines 14-79, and the       *)
(* rotation effect, lines 81-89) have run their cleanup and their body     *)
(* again by the end of every step that changes isRunning.                  *)
(*                                                                         *)
(* Spec, SpecAnyState, SpecMalformed and SpecLive follow the measurement   *)
(* workflow on a canvas too small to hold a particle; SpecView adds the    *)
(* animation frames, the resizes of the viewport and the unmount, on       *)
(* canvases that hold particles.                                           *)
(***************************************************************************)
EXTENDS Integers, Sequences, FiniteSets

\* ------------------------------------------------------------------ bounds
\* Number of startTest invocations in one behaviour.
MaxRuns == 3
\* Ticks of the rotation interval between two resets of rotation.
MaxTicks == 1

\* startTest invocations in one behaviour of SpecView.
MaxViewRuns == 1
\* startTest invocations in one behaviour of SpecLive.
MaxLiveRuns == 2
\* Animation frames in one behaviour of SpecView.
MaxFrames == 2

Runs == 1..MaxRuns

\* Values the measurement service may answer with (Mbps, Mbps, ms); a
\* download of 100 Mbps or more is one of them.
DownloadValues == {50, 150}
UploadValues == {20}
PingValues == {15}

\* What downloadData.download, data.upload or data.ping evaluates to when the
\* payload of a 2xx response lacks the field: the JavaScript value undefined,
\* written here as a number no measurement can be.
Undefined == -1

\* ---------------------------------------------------------------- constants
\* abortControllerRef.current before the first run (useRef(null)).
NoController == 0

\* useState(null) for error, and the two messages handleError can set.
NoError == "null"
DownloadError == "download"
UploadError == "upload and ping"

\* useState({ download: 0, upload: 0, ping: 0 })
ZeroProgress == [download |-> 0, upload |-> 0, ping |-> 0]

\* (prev + 15) % 360
RotationStep == 15
FullTurn == 360

\* star.z: Math.random() * 1000 at initStars, 1000 when a star is recycled.
MaxDepth == 1000
\* const speed = isRunning ? 5 : 1
RunningSpeed == 5
IdleSpeed == 1
\* numStars = Math.floor((canvas.width * canvas.height) / 500)
StarArea == 500

\* canvas.offsetWidth x canvas.offsetHeight, in pixels: no star, one star.
SmallViewports == {[width |-> 20, height |-> 20]}
Viewports == SmallViewports \cup {[width |-> 25, height |-> 20]}
\* Values Math.random() * 1000 takes in initStars (Math.random() is in [0, 1)).
DepthDraws == {0, 2}
\* Values of Math.random(), in thousandths, where a position is drawn; a
\* coordinate Math.random() * canvas.width is kept in thousandths of a pixel.
PositionDraws == {0, 999}

Phases == {"idle", "download", "downloadComplete", "upload", "uploadComplete"}

\* Suspension points of startTest, in program order.
\*   dlFetch  : await fetch(.../download)         dlJson : await downloadResponse.json()
\*   dlSettle : await setTimeout 2000             ulFetch: await fetch(.../upload_ping)
\*   ulJson   : await response.json()             ulSettle: await setTimeout 2000
InFlight == {"dlFetch", "dlJson", "dlSettle", "ulFetch", "ulJson", "ulSettle"}
FetchWaits == {"dlFetch", "ulFetch"}
JsonWaits == {"dlJson", "ulJson"}
TimerWaits == {"dlSettle", "ulSettle"}
\* Awaits that reject with AbortError when the run's signal is aborted.
AbortableWaits == FetchWaits \cup JsonWaits

\* How a pending await settled.
\*   ok: fetch fulfilled, response.ok      notok: fetch fulfilled, !response.ok
\*   neterr: fetch rejected (TypeError)    data: json() fulfilled
\*   parseerr: json() rejected (SyntaxError)
\*   abort: rejected with AbortError       fired: the timer called resolve
Rejections == {"notok", "neterr", "parseerr", "abort"}

VARIABLES
    isRunning,          \* useState(false)
    progress,           \* useState({download, upload, ping})
    testPhase,          \* useState('idle')
    rotation,           \* useState(0)
    error,              \* useState(null)
    abortControllerRef, \* useRef(null): the run whose controller is current
    aborted,            \* controllers whose signal is aborted (controller r belongs to run r)
    pc,                 \* position of each startTest invocation
    res,                \* how the await a run is suspended at has settled
    body,               \* what a run's locals downloadData / data hold (dropped at return)
    mq,                 \* microtask queue: runs whose continuation is ready
    nruns,              \* startTest invocations so far
    \* history (not program state)
    cancelledAt,        \* for a run not yet returned: which handler signaled its token, and where
    clean,              \* runs with no failure and no stopTest/resetTest since they started
    last,               \* the operation that produced this state
    \* the canvas and the effects
    mounted,            \* the component is mounted
    canvas,             \* canvas.width, canvas.height
    stars,              \* `stars` of the canvas effect: sequence of [x, y, z]
    rafPending,         \* animation-frame callbacks requested and not yet run or cancelled
    intervals,          \* rotation intervals set and not cleared
    \* history (not program state)
    nframes,            \* animation-frame callbacks run so far
    starsBy,            \* what made the last initStars run: mount, resize or isRunning
    loopBy              \* what made the last animate() start a loop: mount or isRunning

uiVars == <<isRunning, progress, testPhase, rotation, error>>
runVars == <<abortControllerRef, aborted, pc, res, body, mq, nruns>>
histVars == <<cancelledAt, clean, last>>
viewVars == <<mounted, canvas, stars, rafPending, intervals>>
viewHist == <<nframes, starsBy, loopBy>>
vars == <<uiVars, runVars, histVars, viewVars, viewHist>>

Op(o, r) == [op |-> o, run |-> r]

NotCancelled == [by |-> "none", at |-> "none"]

\* ------------------------------------------------- the canvas and the effects
\* numStars of initStars (line 28).
NumStars(c) == (c.width * c.height) \div StarArea

\* The (x, y) a star can be given on canvas c (lines 31-32 and 59-60).
Positions(c) ==
    {[x |-> dx * c.width, y |-> dy * c.height] : dx \in PositionDraws, dy \in PositionDraws}

\* initStars (lines 26-37): the particle sets it can build on canvas c.  A
\* star's size is left out: it is drawn once and only read by drawStars.
InitStars(c) ==
    [1..NumStars(c) -> {[x |-> p.x, y |-> p.y, z |-> d] : p \in Positions(c), d \in DepthDraws}]

\* const speed = isRunning ? 5 : 1 (line 54); the closure that reads isRunning
\* is the one of the latest render.
Speed(running) == IF running THEN RunningSpeed ELSE IdleSpeed

\* What updateStars can make of one star (lines 56-61).
Moved(star, running, c) ==
    IF star.z - Speed(running) <= 0
    THEN {[x |-> p.x, y |-> p.y, z |-> MaxDepth] : p \in Positions(c)}
    ELSE {[star EXCEPT !.z = @ - Speed(running)]}

\* updateStars (lines 53-63): the particle sets it can make of s.
UpdateStars(s, running, c) ==
    {t \in [DOMAIN s -> UNION {Moved(s[i], running, c) : i \in DOMAIN s}] :
        \A i \in DOMAIN s : t[i] \in Moved(s[i], running, c)}

\* A cleanup of the canvas effect that does not cancel the frame it requested.
RafLeftPending(n) == n

\* cancelAnimationFrame(animationFrameId) in the cleanup of the canvas effect
\* (line 77): animationFrameId is the request of the last animate() call of
\* this effect, which has not run yet.
RafAfterCleanup(n) == IF n > 0 THEN n - 1 ELSE 0

\* clearInterval(rotationInterval) in the cleanup of the rotation effect
\* (line 88): rotationInterval is set only if the effect ran with isRunning.
IntervalsAfterCleanup(n, wasRunning) == IF wasRunning /\ n > 0 THEN n - 1 ELSE n

\* What the two effects with dependency [isRunning] do at the end of a step
\* of the mounted component.  If isRunning has changed: the cleanup of the
\* canvas effect (lines 75-78), its body again (resizeCanvas with initStars,
\* addEventListener, animate with updateStars, drawStars and
\* requestAnimationFrame, lines 71-73), the cleanup of the rotation effect
\* (line 88) and its body again (lines 83-87).
Effects ==
    IF mounted /\ isRunning' # isRunning
    THEN /\ \E s \in InitStars(canvas) : stars' \in UpdateStars(s, isRunning', canvas)
         /\ rafPending' = RafAfterCleanup(rafPending) + 1
         /\ intervals' = IntervalsAfterCleanup(intervals, isRunning)
                            + (IF isRunning' THEN 1 ELSE 0)
         /\ starsBy' = "isRunning"
         /\ loopBy' = "isRunning"
         /\ UNCHANGED <<mounted, canvas, nframes>>
    ELSE UNCHANGED <<viewVars, viewHist>>

\* The first render and the first run of both effects, on a canvas whose
\* size is one of V.
Mount(V) ==
    /\ mounted = TRUE
    /\ canvas \in V
    /\ \E s \in InitStars(canvas) : stars \in UpdateStars(s, FALSE, canvas)
    /\ rafPending = 1
    /\ intervals = 0
    /\ nframes = 0
    /\ starsBy = "mount"
    /\ loopBy = "mount"

\* The callback of requestAnimationFrame runs animate (lines 65-69).
AnimationFrame ==
    /\ mq = <<>>
    /\ mounted /\ rafPending > 0
    /\ nframes < MaxFrames
    /\ stars' \in UpdateStars(stars, isRunning, canvas)
    /\ rafPending' = (rafPending - 1) + 1
    /\ nframes' = nframes + 1
    /\ last' = Op("frame", 0)
    /\ UNCHANGED <<uiVars, runVars, cancelledAt, clean, mounted, canvas, intervals,
                   starsBy, loopBy>>

\* The window's resize event calls resizeCanvas (lines 20-24, 72).
Resize(v) ==
    /\ mq = <<>>
    /\ mounted
    /\ canvas' = v
    /\ stars' \in InitStars(v)
    /\ starsBy' = "resize"
    /\ last' = Op("resize", 0)
    /\ UNCHANGED <<uiVars, runVars, cancelledAt, clean, mounted, rafPending, intervals,
                   nframes, loopBy>>

\* The component is unmounted: React runs the cleanup of both effects
\* (lines 75-78 and 88).  Nothing aborts abortControllerRef.current, so a
\* run in flight goes on; the state cells keep recording what it hands to
\* the setters, although nothing renders them any more.
Unmount ==
    /\ mq = <<>>
    /\ mounted
    /\ mounted' = FALSE
    /\ rafPending' = RafAfterCleanup(rafPending)
    /\ intervals' = IntervalsAfterCleanup(intervals, isRunning)
    /\ last' = Op("unmount", 0)
    /\ UNCHANGED <<uiVars, runVars, cancelledAt, clean, canvas, stars, viewHist>>

InitRun ==
    /\ isRunning = FALSE
    /\ progress = ZeroProgress
    /\ testPhase = "idle"
    /\ rotation = 0
    /\ error = NoError
    /\ abortControllerRef = NoController
    /\ aborted = {}
    /\ pc = [r \in Runs |-> "none"]
    /\ res = [r \in Runs |-> "none"]
    /\ body = [r \in Runs |-> ZeroProgress]
    /\ mq = <<>>
    /\ nruns = 0
    /\ cancelledAt = [r \in Runs |-> NotCancelled]
    /\ clean = {}
    /\ last = Op("init", 0)

Init == InitRun /\ Mount(SmallViewports)

InitView == InitRun /\ Mount(Viewports)

\* ------------------------------------------------------- AbortController
\* controller.abort(): the pending fetch or body read of the run that holds
\* the controller's signal rejects with AbortError; a pending timer is not
\* affected, and a second abort() does nothing.
Rejects(c) ==
    IF c # NoController /\ c \notin aborted /\ pc[c] \in AbortableWaits /\ res[c] = "pending"
    THEN {c} ELSE {}

ResAfterAbort(c) == [x \in Runs |-> IF x \in Rejects(c) THEN "abort" ELSE res[x]]

MqAfterAbort(c, q) == IF Rejects(c) = {} THEN q ELSE Append(q, c)

\* if (abortControllerRef.current) abortControllerRef.current.abort()
AbortedAfterAbort(c) == IF c = NoController THEN aborted ELSE aborted \cup {c}

\* History: handler h signals the token of run c, which has not returned.
CancelledAfterAbort(c, h) ==
    IF c # NoController /\ c \notin aborted /\ pc[c] \in InFlight
    THEN [cancelledAt EXCEPT ![c] = [by |-> h, at |-> pc[c]]] ELSE cancelledAt

\* ------------------------------------------------------------ click handlers
\* The three handlers, as functions of the component state; which of them a
\* click can reach is decided by the rendered view (ClickStart, ClickStop,
\* ClickTryAgain below).

\* startTest, from its call to its first await (lines 91-112): the new
\* controller's signal is not aborted, so the download request is sent.
StartTest ==
    /\ mq = <<>>
    /\ nruns < MaxRuns
    /\ LET r == nruns + 1 IN
        /\ nruns' = r
        /\ isRunning' = TRUE
        /\ progress' = ZeroProgress
        /\ error' = NoError
        /\ abortControllerRef' = r
        /\ testPhase' = "download"
        /\ pc' = [pc EXCEPT ![r] = "dlFetch"]
        /\ res' = [res EXCEPT ![r] = "pending"]
        /\ clean' = {x \in clean : pc[x] \in InFlight} \cup {r}
        /\ last' = Op("start", r)
    /\ UNCHANGED <<rotation, aborted, body, mq, cancelledAt>>
    /\ Effects

\* stopTest without its setProgress call.
StopTestKeepsProgress ==
    /\ mq = <<>>
    /\ aborted' = AbortedAfterAbort(abortControllerRef)
    /\ res' = ResAfterAbort(abortControllerRef)
    /\ mq' = MqAfterAbort(abortControllerRef, mq)
    /\ isRunning' = FALSE
    /\ testPhase' = "idle"
    /\ error' = NoError
    /\ cancelledAt' = CancelledAfterAbort(abortControllerRef, "stopTest")
    /\ clean' = {}
    /\ last' = Op("stop", abortControllerRef)
    /\ UNCHANGED <<progress, rotation, abortControllerRef, pc, body, nruns>>
    /\ Effects

\* stopTest (lines 157-165).
StopTest ==
    /\ mq = <<>>
    /\ aborted' = AbortedAfterAbort(abortControllerRef)
    /\ res' = ResAfterAbort(abortControllerRef)
    /\ mq' = MqAfterAbort(abortControllerRef, mq)
    /\ isRunning' = FALSE
    /\ testPhase' = "idle"
    /\ progress' = ZeroProgress
    /\ error' = NoError
    /\ cancelledAt' = CancelledAfterAbort(abortControllerRef, "stopTest")
    /\ clean' = {}
    /\ last' = Op("stop", abortControllerRef)
    /\ UNCHANGED <<rotation, abortControllerRef, pc, body, nruns>>
    /\ Effects

\* resetTest without its setRotation(0) call.
ResetTestKeepsRotation ==
    /\ mq = <<>>
    /\ isRunning' = FALSE
    /\ progress' = ZeroProgress
    /\ testPhase' = "idle"
    /\ error' = NoError
    /\ aborted' = AbortedAfterAbort(abortControllerRef)
    /\ res' = ResAfterAbort(abortControllerRef)
    /\ mq' = MqAfterAbort(abortControllerRef, mq)
    /\ cancelledAt' = CancelledAfterAbort(abortControllerRef, "resetTest")
    /\ clean' = {}
    /\ last' = Op("reset", abortControllerRef)
    /\ UNCHANGED <<rotation, abortControllerRef, pc, body, nruns>>
    /\ Effects

\* resetTest (lines 167-176).
ResetTest ==
    /\ mq = <<>>
    /\ isRunning' = FALSE
    /\ progress' = ZeroProgress
    /\ testPhase' = "idle"
    /\ rotation' = 0
    /\ error' = NoError
    /\ aborted' = AbortedAfterAbort(abortControllerRef)
    /\ res' = ResAfterAbort(abortControllerRef)
    /\ mq' = MqAfterAbort(abortControllerRef, mq)
    /\ cancelledAt' = CancelledAfterAbort(abortControllerRef, "resetTest")
    /\ clean' = {}
    /\ last' = Op("reset", abortControllerRef)
    /\ UNCHANGED <<abortControllerRef, pc, body, nruns>>
    /\ Effects

\* ------------------------------------------------------------------- tasks
\* A tick of the rotation interval, which the rotation effect sets while
\* isRunning and clears in its cleanup (lines 81-89).
RotationTick ==
    /\ mq = <<>>
    /\ intervals > 0
    /\ rotation \div RotationStep < MaxTicks
    /\ rotation' = (rotation + RotationStep) % FullTurn
    /\ last' = Op("tick", 0)
    /\ UNCHANGED <<isRunning, progress, testPhase, error, runVars, cancelledAt, clean,
                   viewVars, viewHist>>

Settle(r, k, o) ==
    /\ res' = [res EXCEPT ![r] = k]
    /\ mq' = Append(mq, r)
    /\ last' = Op(o, r)
    /\ UNCHANGED <<uiVars, abortControllerRef, aborted, pc, nruns, cancelledAt, clean,
                   viewVars, viewHist>>

\* The fetch promise settles: a response (ok or not) or a transport error.
FetchSettles(r, k) ==
    /\ mq = <<>>
    /\ pc[r] \in FetchWaits /\ res[r] = "pending"
    /\ k \in {"ok", "notok", "neterr"}
    /\ Settle(r, k, "net")
    /\ UNCHANGED body

\* downloadResponse.json() fulfils with { download: v }.
DownloadBodyArrives(r, v) ==
    /\ mq = <<>>
    /\ pc[r] = "dlJson" /\ res[r] = "pending"
    /\ body' = [body EXCEPT ![r].download = v]
    /\ Settle(r, "data", "net")

\* response.json() fulfils with { upload: u, ping: p }.
UploadBodyArrives(r, u, p) ==
    /\ mq = <<>>
    /\ pc[r] = "ulJson" /\ res[r] = "pending"
    /\ body' = [body EXCEPT ![r].upload = u, ![r].ping = p]
    /\ Settle(r, "data", "net")

\* downloadResponse.json() fulfils with an object that has no `download`
\* field (valid JSON of an unexpected shape).
MalformedDownloadBody(r) ==
    /\ mq = <<>>
    /\ pc[r] = "dlJson" /\ res[r] = "pending"
    /\ body' = [body EXCEPT ![r].download = Undefined]
    /\ Settle(r, "data", "net")

\* response.json() fulfils with an object that lacks `upload`, `ping` or both.
MalformedUploadBody(r, u, p) ==
    /\ mq = <<>>
    /\ pc[r] = "ulJson" /\ res[r] = "pending"
    /\ Undefined \in {u, p}
    /\ body' = [body EXCEPT ![r].upload = u, ![r].ping = p]
    /\ Settle(r, "data", "net")

\* json() rejects: the body is not JSON.
BodyParseFails(r) ==
    /\ mq = <<>>
    /\ pc[r] \in JsonWaits /\ res[r] = "pending"
    /\ Settle(r, "parseerr", "net")
    /\ UNCHANGED body

\* setTimeout(resolve, 2000) expires; nothing ever clears this timer.
TimerFires(r) ==
    /\ mq = <<>>
    /\ pc[r] \in TimerWaits /\ res[r] = "pending"
    /\ Settle(r, "fired", "timer")
    /\ UNCHANGED body

\* ------------------------------------------------- startTest continuations
\* A continuation is the synchronous code of startTest between two awaits;
\* it runs as a microtask when the await it waits on has settled.
Ready(r) == mq # <<>> /\ Head(mq) = r

\* A catch that does not tell an AbortError from a failure.
NeverAbortError(k) == FALSE

\* error.name !== 'AbortError' (lines 122 and 147), negated.
IsAbortError(k) == k = "abort"

\* handleError (lines 98-105) followed by `return`, run by r.
HandleError(r, msg) ==
    /\ error' = msg
    /\ isRunning' = FALSE
    /\ aborted' = AbortedAfterAbort(abortControllerRef)
    /\ res' = [ResAfterAbort(abortControllerRef) EXCEPT ![r] = "none"]
    /\ mq' = MqAfterAbort(abortControllerRef, Tail(mq))
    /\ pc' = [pc EXCEPT ![r] = "done"]
    /\ body' = [body EXCEPT ![r] = ZeroProgress]
    /\ cancelledAt' = [cancelledAt EXCEPT ![r] = NotCancelled]
    /\ clean' = clean \ {r}

\* Lines 128-133: setTestPhase('upload'), then fetch(.../upload_ping, {signal}).
\* fetch with an aborted signal returns a rejected promise and sends nothing;
\* the await then resumes the run in a later microtask.
UploadStep(r) ==
    /\ testPhase' = "upload"
    /\ pc' = [pc EXCEPT ![r] = "ulFetch"]
    /\ IF r \in aborted
       THEN /\ res' = [res EXCEPT ![r] = "abort"]
            /\ mq' = Append(Tail(mq), r)
       ELSE /\ res' = [res EXCEPT ![r] = "pending"]
            /\ mq' = Tail(mq)

\* The end of startTest without its setIsRunning(false) call.
FinishLeavesRunning(r) ==
    /\ isRunning' = isRunning
    /\ testPhase' = "idle"
    /\ pc' = [pc EXCEPT ![r] = "done"]
    /\ res' = [res EXCEPT ![r] = "none"]
    /\ body' = [body EXCEPT ![r] = ZeroProgress]
    /\ cancelledAt' = [cancelledAt EXCEPT ![r] = NotCancelled]
    /\ mq' = Tail(mq)

\* Lines 153-154.
Finish(r) ==
    /\ isRunning' = FALSE
    /\ testPhase' = "idle"
    /\ pc' = [pc EXCEPT ![r] = "done"]
    /\ res' = [res EXCEPT ![r] = "none"]
    /\ body' = [body EXCEPT ![r] = ZeroProgress]
    /\ cancelledAt' = [cancelledAt EXCEPT ![r] = NotCancelled]
    /\ mq' = Tail(mq)

\* Lines 113-116: the response is ok, read its body.
DownloadResponse(r) ==
    /\ Ready(r) /\ pc[r] = "dlFetch" /\ res[r] = "ok"
    /\ pc' = [pc EXCEPT ![r] = "dlJson"]
    /\ res' = [res EXCEPT ![r] = "pending"]
    /\ mq' = Tail(mq)
    /\ last' = Op("dlResp", r)
    /\ UNCHANGED <<uiVars, abortControllerRef, aborted, body, nruns, cancelledAt, clean>>
    /\ UNCHANGED <<viewVars, viewHist>>

\* DownloadData without its setProgress call: the phase advances alone.
DownloadDataPhaseOnly(r) ==
    /\ Ready(r) /\ pc[r] = "dlJson" /\ res[r] = "data"
    /\ testPhase' = "downloadComplete"
    /\ pc' = [pc EXCEPT ![r] = "dlSettle"]
    /\ res' = [res EXCEPT ![r] = "pending"]
    /\ mq' = Tail(mq)
    /\ last' = Op("dlData", r)
    /\ UNCHANGED <<isRunning, progress, rotation, error, abortControllerRef, aborted, body,
                   nruns, cancelledAt, clean>>
    /\ UNCHANGED <<viewVars, viewHist>>

\* Lines 117-120: store the download value, show it, start the settle timer.
DownloadData(r) ==
    /\ Ready(r) /\ pc[r] = "dlJson" /\ res[r] = "data"
    /\ progress' = [progress EXCEPT !.download = body[r].download]
    /\ testPhase' = "downloadComplete"
    /\ pc' = [pc EXCEPT ![r] = "dlSettle"]
    /\ res' = [res EXCEPT ![r] = "pending"]
    /\ mq' = Tail(mq)
    /\ last' = Op("dlData", r)
    /\ UNCHANGED <<isRunning, rotation, error, abortControllerRef, aborted, body, nruns,
                   cancelledAt, clean>>
    /\ UNCHANGED <<viewVars, viewHist>>

\* The download catch without the `return` after handleError: the run goes
\* on with line 128 after reporting the failure.
DownloadCatchNoReturn(r) ==
    /\ Ready(r) /\ pc[r] \in {"dlFetch", "dlJson"} /\ res[r] \in Rejections
    /\ IF ~IsAbortError(res[r])
       THEN /\ error' = DownloadError
            /\ isRunning' = FALSE
            /\ aborted' = AbortedAfterAbort(abortControllerRef)
            /\ clean' = clean \ {r}
            /\ testPhase' = "upload"
            /\ pc' = [pc EXCEPT ![r] = "ulFetch"]
            /\ IF r \in aborted'
               THEN /\ res' = [ResAfterAbort(abortControllerRef) EXCEPT ![r] = "abort"]
                    /\ mq' = Append(MqAfterAbort(abortControllerRef, Tail(mq)), r)
               ELSE /\ res' = [ResAfterAbort(abortControllerRef) EXCEPT ![r] = "pending"]
                    /\ mq' = MqAfterAbort(abortControllerRef, Tail(mq))
            /\ last' = Op("dlFail", r)
            /\ UNCHANGED <<progress, rotation, abortControllerRef, body, nruns, cancelledAt>>
       ELSE /\ UploadStep(r)
            /\ last' = Op("dlAbort", r)
            /\ UNCHANGED <<isRunning, progress, rotation, error, abortControllerRef,
                           aborted, body, nruns, cancelledAt, clean>>
    /\ Effects

\* Lines 121-133: the catch of the download step.  A failure that is not an
\* AbortError is reported and the run returns; an AbortError is swallowed
\* and the run goes on with line 128.
DownloadCatch(r) ==
    /\ Ready(r) /\ pc[r] \in {"dlFetch", "dlJson"} /\ res[r] \in Rejections
    /\ IF ~IsAbortError(res[r])
       THEN /\ HandleError(r, DownloadError)
            /\ last' = Op("dlFail", r)
            /\ UNCHANGED <<progress, testPhase, rotation, abortControllerRef, nruns>>
       ELSE /\ UploadStep(r)
            /\ last' = Op("dlAbort", r)
            /\ UNCHANGED <<isRunning, progress, rotation, error, abortControllerRef,
                           aborted, body, nruns, cancelledAt, clean>>
    /\ Effects

\* Lines 120, 128-133: the settle delay is over, go on with the upload step.
DownloadSettled(r) ==
    /\ Ready(r) /\ pc[r] = "dlSettle" /\ res[r] = "fired"
    /\ UploadStep(r)
    /\ last' = Op("dlSettled", r)
    /\ UNCHANGED <<isRunning, progress, rotation, error, abortControllerRef,
                   aborted, body, nruns, cancelledAt, clean>>
    /\ UNCHANGED <<viewVars, viewHist>>

\* Lines 134-137.
UploadResponse(r) ==
    /\ Ready(r) /\ pc[r] = "ulFetch" /\ res[r] = "ok"
    /\ pc' = [pc EXCEPT ![r] = "ulJson"]
    /\ res' = [res EXCEPT ![r] = "pending"]
    /\ mq' = Tail(mq)
    /\ last' = Op("ulResp", r)
    /\ UNCHANGED <<uiVars, abortControllerRef, aborted, body, nruns, cancelledAt, clean>>
    /\ UNCHANGED <<viewVars, viewHist>>

\* Lines 138-145.
UploadData(r) ==
    /\ Ready(r) /\ pc[r] = "ulJson" /\ res[r] = "data"
    /\ progress' = [progress EXCEPT !.upload = body[r].upload, !.ping = body[r].ping]
    /\ testPhase' = "uploadComplete"
    /\ pc' = [pc EXCEPT ![r] = "ulSettle"]
    /\ res' = [res EXCEPT ![r] = "pending"]
    /\ mq' = Tail(mq)
    /\ last' = Op("ulData", r)
    /\ UNCHANGED <<isRunning, rotation, error, abortControllerRef, aborted, body, nruns,
                   cancelledAt, clean>>
    /\ UNCHANGED <<viewVars, viewHist>>

\* Lines 146-154: the catch of the upload step; an AbortError is swallowed
\* and the run goes on with line 153.
UploadCatch(r) ==
    /\ Ready(r) /\ pc[r] \in {"ulFetch", "ulJson"} /\ res[r] \in Rejections
    /\ IF ~IsAbortError(res[r])
       THEN /\ HandleError(r, UploadError)
            /\ last' = Op("ulFail", r)
            /\ UNCHANGED <<progress, testPhase, rotation, abortControllerRef, nruns>>
       ELSE /\ Finish(r)
            /\ last' = Op("ulAbort", r)
            /\ UNCHANGED <<progress, rotation, error, abortControllerRef, aborted,
                           nruns, clean>>
    /\ Effects

\* Lines 145, 153-154: the second settle delay is over, the run ends.
UploadSettled(r) ==
    /\ Ready(r) /\ pc[r] = "ulSettle" /\ res[r] = "fired"
    /\ Finish(r)
    /\ last' = Op("finish", r)
    /\ UNCHANGED <<progress, rotation, error, abortControllerRef, aborted,
                   nruns, clean>>
    /\ Effects

\* ------------------------------------------------------------ specification
\* The main view offers one button: onClick={isRunning ? stopTest : startTest}
\* (lines 340-349).  The error view (if (error) return ..., lines 267-292)
\* offers only "Try Again" (resetTest).
StartOffered == mounted /\ error = NoError /\ ~isRunning
StopOffered == mounted /\ error = NoError /\ isRunning
ResetOffered == mounted /\ error # NoError

ClickStart == StartOffered /\ StartTest
ClickStop == StopOffered /\ StopTest
ClickTryAgain == ResetOffered /\ ResetTest

\* What happens without the user: the interval, the network, the timers and
\* the continuations of startTest.
Background ==
    \/ RotationTick
    \/ \E r \in Runs, k \in {"ok", "notok", "neterr"} : FetchSettles(r, k)
    \/ \E r \in Runs, v \in DownloadValues : DownloadBodyArrives(r, v)
    \/ \E r \in Runs, u \in UploadValues, p \in PingValues : UploadBodyArrives(r, u, p)
    \/ \E r \in Runs : BodyParseFails(r)
    \/ \E r \in Runs : TimerFires(r)
    \/ \E r \in Runs : DownloadResponse(r)
    \/ \E r \in Runs : DownloadData(r)
    \/ \E r \in Runs : DownloadCatch(r)
    \/ \E r \in Runs : DownloadSettled(r)
    \/ \E r \in Runs : UploadResponse(r)
    \/ \E r \in Runs : UploadData(r)
    \/ \E r \in Runs : UploadCatch(r)
    \/ \E r \in Runs : UploadSettled(r)

Next == ClickStart \/ ClickStop \/ ClickTryAgain \/ Background

Spec == Init /\ [][Next]_vars

\* What happens to run r without the user: its fetch or body read settles,
\* its timer fires, its continuation runs.
RunStep(r) ==
    \/ \E k \in {"ok", "notok", "neterr"} : FetchSettles(r, k)
    \/ \E v \in DownloadValues : DownloadBodyArrives(r, v)
    \/ \E u \in UploadValues, p \in PingValues : UploadBodyArrives(r, u, p)
    \/ BodyParseFails(r)
    \/ TimerFires(r)
    \/ DownloadResponse(r)
    \/ DownloadData(r)
    \/ DownloadCatch(r)
    \/ DownloadSettled(r)
    \/ UploadResponse(r)
    \/ UploadData(r)
    \/ UploadCatch(r)
    \/ UploadSettled(r)

\* Every issued fetch and body read settles, every settle timer fires and
\* every queued microtask runs; the user may stop clicking at any time.
Fairness == \A r \in Runs : WF_vars(RunStep(r))

\* The workflow of at most MaxLiveRuns runs.
NextLive ==
    \/ (nruns < MaxLiveRuns /\ ClickStart)
    \/ ClickStop
    \/ ClickTryAgain
    \/ Background

SpecLive == Init /\ [][NextLive]_vars /\ Fairness

\* The handlers stopTest and resetTest called in whatever state the component
\* is in, not only where their button is shown: the environment for what is
\* claimed of a handler "from any state".
NextAnyState == ClickStart \/ StopTest \/ ResetTest \/ Background

SpecAnyState == Init /\ [][NextAnyState]_vars

\* The service may also answer 2xx with a payload of an unexpected shape.
MalformedPayload ==
    \/ \E r \in Runs : MalformedDownloadBody(r)
    \/ \E r \in Runs, u \in UploadValues \cup {Undefined}, p \in PingValues \cup {Undefined} :
            MalformedUploadBody(r, u, p)

NextMalformed == Next \/ MalformedPayload

SpecMalformed == Init /\ [][NextMalformed]_vars

\* The component with its canvas: the workflow (at most MaxViewRuns runs),
\* the animation frames, the resizes of the viewport and the unmount.
NextView ==
    \/ (nruns < MaxViewRuns /\ ClickStart)
    \/ ClickStop
    \/ ClickTryAgain
    \/ Background
    \/ AnimationFrame
    \/ \E v \in Viewports : Resize(v)
    \/ Unmount

SpecView == InitView /\ [][NextView]_vars

TypeOK ==
    /\ isRunning \in BOOLEAN
    /\ progress \in [download : DownloadValues \cup {0}, upload : UploadValues \cup {0},
                     ping : PingValues \cup {0}]
    /\ testPhase \in Phases
    /\ rotation \in 0..(FullTurn - 1)
    /\ error \in {NoError, DownloadError, UploadError}
    /\ abortControllerRef \in Runs \cup {NoController}
    /\ aborted \subseteq Runs
    /\ \A r \in Runs : pc[r] \in InFlight \cup {"none", "done"}
    /\ Len(mq) <= MaxRuns
    /\ mounted \in BOOLEAN
    /\ canvas \in Viewports
    /\ \A i \in DOMAIN stars : stars[i].z \in 0..MaxDepth
    /\ rafPending \in 0..1
    /\ intervals \in 0..1

\* ------------------------------------------------------------------ claims
\* The phase startTest has set at each of its suspension points.
PhaseAt(p) ==
    CASE p \in {"dlFetch", "dlJson"} -> "download"
      [] p = "dlSettle" -> "downloadComplete"
      [] p \in {"ulFetch", "ulJson"} -> "upload"
      [] p = "ulSettle" -> "uploadComplete"
      [] OTHER -> "idle"

\* A step in which run r executes fetch(.../upload_ping) (line 130).
CallsUpload(r) == pc[r] # "ulFetch" /\ pc'[r] = "ulFetch"

\* The continuation that is about to run is r's, and the await of r's download
\* (upload) step has failed for a reason other than cancellation.
DownloadFails(r) ==
    Ready(r) /\ pc[r] \in {"dlFetch", "dlJson"} /\ res[r] \in Rejections \ {"abort"}

UploadFails(r) ==
    Ready(r) /\ pc[r] \in {"ulFetch", "ulJson"} /\ res[r] \in Rejections \ {"abort"}

\* Runs still suspended at an await whose token is not signaled.
ActiveRuns == {r \in Runs : pc[r] \in InFlight /\ r \notin aborted}

\* C1: a run in which both fetches succeed and no stopTest/resetTest is
\* invoked shows the phases idle, download, downloadComplete, upload,
\* uploadComplete, idle in this order: from its start on, testPhase is the
\* phase of the step the run is at, and idle once it has returned.
C1_PhaseSequence ==
    \A r \in clean : r \notin aborted => testPhase = PhaseAt(pc[r])

\* C2: a run whose download step fails for a reason other than cancellation
\* records the error and returns without calling fetch(.../upload_ping), and
\* a run that has returned never calls it.
C2_DownloadFailureStopsRun ==
    [][\A r \in Runs :
            /\ DownloadFails(r) =>
                    (~CallsUpload(r) /\ pc'[r] = "done" /\ error' = DownloadError /\ ~isRunning')
            /\ pc[r] = "done" => (~CallsUpload(r) /\ pc'[r] = "done")]_vars

C2_Witness == \E r \in Runs : last = Op("dlFail", r) /\ pc[r] = "done" /\ error = DownloadError

\* C3: error non-null implies testPhase idle.
C3_ErrorImpliesIdle == error # NoError => testPhase = "idle"

\* C4: a run stopped by stopTest while its download fetch was pending never
\* calls fetch(.../upload_ping), and when it returns the phase is idle and
\* progress is {0,0,0}.
C4_StopDuringDownload ==
    [][\A r \in Runs : cancelledAt[r] = [by |-> "stopTest", at |-> "dlFetch"] =>
            /\ ~CallsUpload(r)
            /\ (pc[r] # "done" /\ pc'[r] = "done") =>
                    (testPhase' = "idle" /\ progress' = ZeroProgress)]_vars

\* C5: the continuation of a run whose token stopTest or resetTest has
\* signaled changes none of testPhase, isRunning, progress, error.
C5_SignaledRunIsSilent ==
    [][\A r \in Runs : (Ready(r) /\ cancelledAt[r] # NotCancelled) =>
            UNCHANGED <<testPhase, isRunning, progress, error>>]_vars

\* C6: at most one startTest invocation is in flight with an unsignaled token.
C6_AtMostOneActiveRun == Cardinality(ActiveRuns) <= 1

\* C7: in the state stopTest leaves, testPhase is idle, progress is {0,0,0},
\* error is null, isRunning is false and the current controller, if any, is
\* aborted.
C7_StopPostcondition ==
    last.op = "stop" =>
        /\ testPhase = "idle"
        /\ progress = ZeroProgress
        /\ error = NoError
        /\ ~isRunning
        /\ abortControllerRef # NoController => abortControllerRef \in aborted

C7_Witness ==
    /\ last.op = "stop" /\ abortControllerRef \in aborted
    /\ mq # <<>> /\ testPhase = "idle" /\ progress = ZeroProgress

\* C8: error is set only by the continuation of an await that failed for a
\* reason other than cancellation; the continuation of an await rejected
\* with AbortError leaves error as it is.
C8_AbortNeverSetsError ==
    [][/\ (error' # error /\ error' # NoError) =>
            (mq # <<>> /\ res[Head(mq)] \in Rejections \ {"abort"})
       /\ (mq # <<>> /\ res[Head(mq)] = "abort") => error' = error]_vars

C8_Witness == last.op \in {"dlAbort", "ulAbort"} /\ error = NoError

\* C9: when a run with no failure and no cancellation returns, progress holds
\* the three values its two responses carried, and the phase is idle.
C9_FinalProgressIsReturned ==
    [][\A r \in clean : (Ready(r) /\ pc[r] = "ulSettle" /\ r \notin aborted) =>
            (progress' = body[r] /\ testPhase' = "idle")]_vars

\* C10: when the upload step of a run fails for a reason other than
\* cancellation, error names the upload phase, progress.download is the
\* value d the run's download returned, upload and ping are 0, and the run
\* has returned.
C10_UploadFailureKeepsDownload ==
    [][\A r \in Runs :
            UploadFails(r) =>
                /\ error' = UploadError
                /\ progress' = [download |-> body[r].download, upload |-> 0, ping |-> 0]
                /\ pc'[r] = "done"
                /\ ~CallsUpload(r)]_vars

\* A progress (or payload) record with a field that is not a measurement.
Malformed(p) == Undefined \in {p.download, p.upload, p.ping}

\* C11: when the body of a 2xx response lacks a field, the run that read it
\* sets the error of the phase it is in and returns, and progress holds no
\* malformed value.
C11_MalformedPayloadIsAnError ==
    [][\A r \in Runs :
            (Ready(r) /\ pc[r] \in JsonWaits /\ res[r] = "data" /\ Malformed(body[r])) =>
                /\ error' = (IF pc[r] = "dlJson" THEN DownloadError ELSE UploadError)
                /\ pc'[r] = "done"
                /\ ~Malformed(progress')]_vars

\* C12: the step that unmounts the component signals the token of every run
\* in flight, and after it no run calls fetch(.../upload_ping) or hands a
\* value to setTestPhase, setIsRunning, setProgress or setError.
C12_TeardownCancelsRun ==
    [][/\ (mounted /\ ~mounted') => \A r \in Runs : pc[r] \in InFlight => r \in aborted'
       /\ ~mounted => /\ \A r \in Runs : ~CallsUpload(r)
                      /\ UNCHANGED <<testPhase, isRunning, progress, error>>]_vars

\* C13: no change of run state stops and restarts the animation loop or
\* rebuilds the particle set: the loop running is the one started at mount,
\* and the particle set was built at mount or by a resize of the viewport.
C13_RenderLoopIndependent == loopBy = "mount" /\ starsBy \in {"mount", "resize"}

C15_ResetPostcondition ==
    last.op = "reset" =>
        /\ <<isRunning, progress, testPhase, rotation, error>>
                = <<FALSE, ZeroProgress, "idle", 0, NoError>>
        /\ abortControllerRef # NoController => abortControllerRef \in aborted

C15_Witness ==
    /\ last.op = "reset" /\ abortControllerRef \in aborted /\ mq # <<>>
    /\ rotation = 0 /\ ~isRunning

\* A star lies on canvas c (coordinates in thousandths of a pixel).
InViewport(star, c) ==
    /\ star.x >= 0 /\ star.x < c.width * 1000
    /\ star.y >= 0 /\ star.y < c.height * 1000

\* C16: after every step every star has 0 < z <= 1000, and a star whose depth
\* reaches <= 0 in the updateStars of a frame comes out of it with depth 1000
\* and a position on the canvas.
C16_DepthInRange ==
    [][/\ \A i \in DOMAIN stars' : stars'[i].z > 0 /\ stars'[i].z <= MaxDepth
       /\ last'.op = "frame" =>
            \A i \in DOMAIN stars :
                stars[i].z - Speed(isRunning) <= 0 =>
                    (stars'[i].z = MaxDepth /\ InViewport(stars'[i], canvas))]_vars

\* The angle of the gauge's transform (line 310), in tenths of a degree:
\* rotate(${isRunning ? rotation : progress.download * 3.6}deg).
GaugeAngle == IF isRunning THEN rotation * 10 ELSE progress.download * 36

\* C17: whenever the gauge is rendered (the component is mounted and shows
\* its main view), its angle is in [0, 360).
C17_GaugeAngleInRange ==
    (mounted /\ error = NoError) => (GaugeAngle >= 0 /\ GaugeAngle < FullTurn * 10)

\* C18: the speed updateStars uses is the higher one exactly in the states
\* where testPhase is not idle: isRunning is true iff testPhase # idle.
C18_RunningIffNotIdle ==
    /\ isRunning <=> testPhase # "idle"
    /\ Speed(isRunning) = RunningSpeed <=> testPhase # "idle"

\* C19: while the component is mounted at most one animation-frame callback
\* is pending and at most one rotation interval is active, and one is active
\* only while isRunning; once it is unmounted there is none of either.
C19_OneFrameOneInterval ==
    /\ mounted => /\ rafPending <= 1
                  /\ intervals <= 1
                  /\ intervals > 0 => isRunning
    /\ ~mounted => (rafPending = 0 /\ intervals = 0)

C19_Witness ==
    /\ last.op = "unmount" /\ isRunning /\ nframes > 0 /\ starsBy = "isRunning"
    /\ rafPending = 0 /\ intervals = 0

\* C20: every startTest invocation that is suspended at an await eventually
\* returns, and the step in which it returns leaves isRunning false.
C20_RunEventuallyReturns ==
    \A r \in Runs :
        (pc[r] \in InFlight) ~> (pc[r] = "done" /\ last.run = r /\ ~isRunning)

C20_Witness ==
    \E r \in Runs : pc[r] = "done" /\ r \in aborted /\ last = Op("ulAbort", r) /\ ~isRunning

====
